---- MODULE Spec2Model ----
(***************************************************************************)
(* Model of src/app.py: the Flask handlers get_studies_by_term,            *)
(* get_studies_by_coordinates, dissociate_terms and dissociate_locations,  *)
(* the lazily created global engine, and the SQL the handlers send to the  *)
(* store, evaluated over a small read-only corpus (ns.metadata,            *)
(* ns.annotations_terms, ns.coordinates).                                  *)
(*                                                                         *)
(* Strings are sequences of one-character strings, so that strip, lower,   *)
(* replace, split, int(), float(), split_part and ILIKE are computed       *)
(* character by character as the code and the store compute them.          *)
(***************************************************************************)
EXTENDS Integers, Sequences, FiniteSets, TLC

VARIABLES db_url, engine, metadata, annotations, coordinates,
          request, locals, response

vars == <<db_url, engine, metadata, annotations, coordinates,
          request, locals, response>>

(***************************************************************************)
(* Bounds of the model.                                                    *)
(***************************************************************************)
MaxStudies == 2        \* study ids 1..MaxStudies
MaxAnnotations == 2    \* rows of ns.annotations_terms
MaxCoordinates == 2    \* rows of ns.coordinates
MaxRawLen == 3         \* length of generated raw term strings
MaxLimitLen == 5       \* length of generated raw limit strings
MaxStoredLen == 5      \* length of generated stored terms
MaxQueryLen == 2       \* length of generated query terms matched against them
MaxCoordLen == 7       \* length of generated coordinate strings

(***************************************************************************)
(* SQL NULL / Python None, for integer-valued columns.                     *)
(***************************************************************************)
NULL == -1

\* request.args.get(name) when the query parameter is absent
None == <<"None">>

(***************************************************************************)
(* Strings.                                                                *)
(***************************************************************************)
Str(S, n) == UNION {[1..k -> S] : k \in 0..n}

NonEmptyStr(S, n) == UNION {[1..k -> S] : k \in 1..n}

Whitespace == {" ", "\t", "\n"}

Digits == {"0", "1", "2", "3", "4", "5", "6", "7", "8", "9"}

DigitVal(c) ==
    CASE c = "0" -> 0 [] c = "1" -> 1 [] c = "2" -> 2 [] c = "3" -> 3
      [] c = "4" -> 4 [] c = "5" -> 5 [] c = "6" -> 6 [] c = "7" -> 7
      [] c = "8" -> 8 [] c = "9" -> 9

LowerChar(c) ==
    CASE c = "A" -> "a" [] c = "B" -> "b" [] c = "X" -> "x" [] OTHER -> c

\* str.lower() / SQL lower()
Lower(s) == [i \in 1..Len(s) |-> LowerChar(s[i])]

RECURSIVE LStrip(_)
LStrip(s) ==
    IF s # <<>> /\ Head(s) \in Whitespace THEN LStrip(Tail(s)) ELSE s

RECURSIVE RStrip(_)
RStrip(s) ==
    IF s # <<>> /\ s[Len(s)] \in Whitespace
    THEN RStrip(SubSeq(s, 1, Len(s) - 1))
    ELSE s

\* str.strip()
Strip(s) == RStrip(LStrip(s))

\* str.replace(old, new) for one-character old and new
Replace(s, old, new) == [i \in 1..Len(s) |-> IF s[i] = old THEN new ELSE s[i]]

\* index of the first occurrence of the two-character delimiter d at or
\* after position i, 0 when there is none
RECURSIVE Find(_, _, _)
Find(s, d, i) ==
    IF i + 1 > Len(s) THEN 0
    ELSE IF s[i] = d[1] /\ s[i + 1] = d[2] THEN i
    ELSE Find(s, d, i + 1)

\* PostgreSQL split_part(s, d, n) for a two-character delimiter: the n-th
\* field of s split at the occurrences of d, '' when s has fewer fields
RECURSIVE split_part(_, _, _)
split_part(s, d, n) ==
    LET p == Find(s, d, 1) IN
    IF n = 1
    THEN IF p = 0 THEN s ELSE SubSeq(s, 1, p - 1)
    ELSE IF p = 0 THEN <<>>
    ELSE split_part(SubSeq(s, p + 2, Len(s)), d, n - 1)

\* PostgreSQL LIKE: '%' matches any run of characters, '_' any one character
RECURSIVE Like(_, _)
Like(s, p) ==
    IF p = <<>> THEN s = <<>>
    ELSE IF Head(p) = "%"
         THEN Like(s, Tail(p)) \/ (s # <<>> /\ Like(Tail(s), p))
    ELSE IF Head(p) = "_"
         THEN s # <<>> /\ Like(Tail(s), Tail(p))
    ELSE s # <<>> /\ Head(s) = Head(p) /\ Like(Tail(s), Tail(p))

\* PostgreSQL ILIKE: LIKE, case-insensitively
ILike(s, p) == Like(Lower(s), Lower(p))

\* str.split(sep) for a one-character separator
RECURSIVE Split(_, _)
Split(s, sep) ==
    IF \E i \in 1..Len(s) : s[i] = sep
    THEN LET p == CHOOSE i \in 1..Len(s) :
                      s[i] = sep /\ \A j \in 1..(i - 1) : s[j] # sep
         IN <<SubSeq(s, 1, p - 1)>> \o Split(SubSeq(s, p + 1, Len(s)), sep)
    ELSE <<s>>

(***************************************************************************)
(* Python int() and float() on a string.  A parse yields [ok, num, den]:   *)
(* the value num/den, den a power of ten (1 for int()).  ok = FALSE is     *)
(* ValueError.  Exponents, "inf" and "nan" need letters that none of the   *)
(* generated strings contains.                                             *)
(***************************************************************************)
ValueError == [ok |-> FALSE, num |-> 0, den |-> 1]

\* a digit group as int() and float() accept it: digits, with single
\* underscores allowed between digits
IsDigitGroup(s) ==
    /\ s # <<>>
    /\ \A i \in 1..Len(s) : s[i] \in Digits \cup {"_"}
    /\ s[1] # "_" /\ s[Len(s)] # "_"
    /\ \A i \in 1..(Len(s) - 1) : ~(s[i] = "_" /\ s[i + 1] = "_")

RECURSIVE DigitGroupVal(_, _)
DigitGroupVal(s, acc) ==
    IF s = <<>> THEN acc
    ELSE IF Head(s) = "_" THEN DigitGroupVal(Tail(s), acc)
    ELSE DigitGroupVal(Tail(s), 10 * acc + DigitVal(Head(s)))

RECURSIVE Pow10(_)
Pow10(n) == IF n = 0 THEN 1 ELSE 10 * Pow10(n - 1)

NumDigits(s) == Cardinality({i \in 1..Len(s) : s[i] \in Digits})

Signed(s) == s # <<>> /\ Head(s) \in {"+", "-"}

Unsigned(s) == IF Signed(s) THEN Tail(s) ELSE s

SignOf(s) == IF s # <<>> /\ Head(s) = "-" THEN -1 ELSE 1

\* int(s)
int(s) ==
    LET t == Strip(s)
        b == Unsigned(t)
    IN IF IsDigitGroup(b)
       THEN [ok |-> TRUE, num |-> SignOf(t) * DigitGroupVal(b, 0), den |-> 1]
       ELSE ValueError

\* float(s)
float(s) ==
    LET t == Strip(s)
        b == Unsigned(t)
        parts == Split(b, ".")
        ip == parts[1]
        fp == IF Len(parts) = 2 THEN parts[2] ELSE <<>>
    IN IF /\ Len(parts) <= 2
          /\ ip # <<>> \/ fp # <<>>
          /\ ip = <<>> \/ IsDigitGroup(ip)
          /\ fp = <<>> \/ IsDigitGroup(fp)
       THEN [ok |-> TRUE,
             num |-> SignOf(t) * DigitGroupVal(ip \o fp, 0),
             den |-> Pow10(NumDigits(fp))]
       ELSE ValueError

Max(a, b) == IF a >= b THEN a ELSE b

Min(a, b) == IF a <= b THEN a ELSE b

DefaultLimit == 50

LimitCap == 500

\* mutant of ClampLimit: the upper bound is not applied
ClampLimit_NoCap(limit) == Max(1, limit)

\* limit = max(1, min(limit, 500))
ClampLimit(limit) == Max(1, Min(limit, LimitCap))

\* try: limit = int(request.args.get("limit", 50))
\* except ValueError: limit = 50
\* limit = max(1, min(limit, 500))
ParseLimit(raw) ==
    LET v == IF raw = None THEN DefaultLimit
             ELSE IF int(raw).ok THEN int(raw).num
             ELSE DefaultLimit
    IN ClampLimit(v)

\* try: offset = int(request.args.get("offset", 0))
\* except ValueError: offset = 0
\* offset = max(0, offset)
ParseOffset(raw) ==
    LET v == IF raw = None THEN 0
             ELSE IF int(raw).ok THEN int(raw).num
             ELSE 0
    IN Max(0, v)

\* try: r = float(request.args.get("r", 0))
\* except ValueError: r = 0.0
\* r = max(0.0, r)
ParseRadius(raw) ==
    LET v == IF raw = None THEN [ok |-> TRUE, num |-> 0, den |-> 1]
             ELSE IF float(raw).ok THEN float(raw)
             ELSE [ok |-> TRUE, num |-> 0, den |-> 1]
    IN IF v.num < 0 THEN [ok |-> TRUE, num |-> 0, den |-> 1] ELSE v

(***************************************************************************)
(* Term normalisation and the term match of the WHERE clauses.             *)
(***************************************************************************)
\* t = term.strip().lower(); t_us = t.replace(" ", "_");
\* t_sp = t.replace("_", " ")
Normalize(term) ==
    LET t == Lower(Strip(term))
    IN [us |-> Replace(t, " ", "_"), sp |-> Replace(t, "_", " ")]

Delim == <<"_", "_">>

\* split_part(lower(a.term),'__',2)
CleanLower(term) == split_part(Lower(term), Delim, 2)

\* split_part(lower(a.term),'__',2) IN (:t_us, :t_sp)
\*   OR split_part(lower(a.term),'__',2) ILIKE :prefix,  prefix = f"{t_us}%"
TermMatch(term, c) ==
    \/ CleanLower(term) \in {c.us, c.sp}
    \/ ILike(CleanLower(term), c.us \o <<"%">>)

(***************************************************************************)
(* The store.  ns.metadata is a function study_id -> year (year may be     *)
(* NULL); ns.annotations_terms a set of rows [study_id, term, weight]      *)
(* (weight may be NULL); ns.coordinates a set of rows [study_id, x, y, z]. *)
(***************************************************************************)
Studies == 1..MaxStudies

Years == {NULL, 2020, 2021}

Weights == {NULL, 1, 2}

\* a.weight DESC NULLS LAST, m.year DESC, m.study_id: r1 may precede r2.
\* DESC without NULLS LAST puts NULL first (the store's default).
TermOrder(r1, r2) ==
    LET w1 == r1.weight
        w2 == r2.weight
        y1 == metadata[r1.study_id]
        y2 == metadata[r2.study_id]
        wLess == w1 # NULL /\ (w2 = NULL \/ w1 > w2)
        wEq == w1 = w2
        yLess == y1 # y2 /\ (y1 = NULL \/ (y2 # NULL /\ y1 > y2))
        yEq == y1 = y2
    IN \/ wLess
       \/ wEq /\ yLess
       \/ wEq /\ yEq /\ r1.study_id <= r2.study_id

\* m.year DESC, m.study_id over study ids
StudyOrder(s1, s2) ==
    LET y1 == metadata[s1]
        y2 == metadata[s2]
    IN \/ y1 # y2 /\ (y1 = NULL \/ (y2 # NULL /\ y1 > y2))
       \/ y1 = y2 /\ s1 <= s2

\* the arrangements of the row set S: each row once
Arrangements(S) ==
    LET T == S
        n == Cardinality(T)
    IN {q \in [1..n -> T] : \A i, j \in 1..n : i # j => q[i] # q[j]}

\* the sequences the store may return for the rows S of a term query under
\* ORDER BY a.weight DESC NULLS LAST, m.year DESC, m.study_id: every
\* arrangement that respects the order; rows that tie come in any order
OrderedTerms(S) ==
    {q \in Arrangements(S) :
        \A i \in 1..(Len(q) - 1) : TermOrder(q[i], q[i + 1])}

\* the same for the studies S under ORDER BY m.year DESC, m.study_id
OrderedStudies(S) ==
    {q \in Arrangements(S) :
        \A i \in 1..(Len(q) - 1) : StudyOrder(q[i], q[i + 1])}

\* LIMIT :limit OFFSET :offset
Page(q, limit, offset) == SubSeq(q, offset + 1, Min(Len(q), offset + limit))

\* FROM ns.annotations_terms a JOIN ns.metadata m USING (study_id) WHERE ...
TermRows(c) == {a \in annotations : TermMatch(a.term, c)}

\* mutant of NotExistsB: B is tested on the joined annotation alone
NotExistsB_JoinedRowOnly(a, cb) == ~TermMatch(a.term, cb)

\* the B side of dissociate_terms: NOT EXISTS (SELECT 1 FROM
\* ns.annotations_terms b2 WHERE b2.study_id = m.study_id AND <match B>)
NotExistsB(a, cb) ==
    ~\E b2 \in annotations : b2.study_id = a.study_id /\ TermMatch(b2.term, cb)

\* WHERE <a matches A> AND EXISTS (a2 of the study matches A)
\*   AND NOT EXISTS (b2 of the study matches B)
DissocTermRows(ca, cb) ==
    {a \in annotations :
        /\ TermMatch(a.term, ca)
        /\ \E a2 \in annotations :
              a2.study_id = a.study_id /\ TermMatch(a2.term, ca)
        /\ NotExistsB(a, cb)}

\* SELECT m.study_id, m.title, m.journal, m.year, a.term AS raw_term,
\*        split_part(a.term,'__',2) AS clean_term, a.weight
TermItem(a) ==
    [study_id |-> a.study_id, year |-> metadata[a.study_id],
     raw_term |-> a.term, clean_term |-> split_part(a.term, Delim, 2),
     weight |-> a.weight]

\* SELECT m.study_id, m.title, m.journal, m.year, a.weight AS weight_a
DissocTermItem(a) ==
    [study_id |-> a.study_id, year |-> metadata[a.study_id],
     weight_a |-> a.weight]

(***************************************************************************)
(* get_engine and the responses.                                           *)
(***************************************************************************)
NoUrl == [set |-> FALSE, scheme |-> "", rest |-> ""]

NoEngine == [created |-> FALSE, scheme |-> "", rest |-> ""]

\* get_engine raises RuntimeError: no engine yet and DB_URL missing or empty
GetEngineRaises == ~engine.created /\ ~db_url.set

\* the value of _engine after get_engine returned
GetEngine ==
    IF engine.created THEN engine
    ELSE [created |-> TRUE,
          scheme |-> IF db_url.scheme = "postgres" THEN "postgresql"
                     ELSE db_url.scheme,
          rest |-> db_url.rest]

\* where the store fails during a request; "none": it does not
Faults == {"none", "connect", "search_path", "query", "commit"}

\* an exception leaves the handler: the framework answers 500 with its own
\* error page, which carries neither the envelope nor the message
Unhandled(exc) ==
    [status |-> 500, body |-> "error_page", ok |-> FALSE, count |-> 0,
     items |-> <<>>, error |-> "", exception |-> exc]

\* A response is [status, body, ok, count, items, error, exception]; body
\* says what the body is ("envelope": a JSON object with ok, "array": a JSON
\* list, "html", "error_page") and the fields a body lacks hold fillers:
\* FALSE, 0, <<>>, "".

\* the JSON envelope, as `out` stands when the handler returns
Envelope(status, ok, items, error) ==
    [status |-> status, body |-> "envelope", ok |-> ok, count |-> Len(items),
     items |-> items, error |-> error, exception |-> ""]

NoResponse ==
    [status |-> 0, body |-> "none", ok |-> FALSE, count |-> 0,
     items |-> <<>>, error |-> "", exception |-> ""]

\* the with eng.begin() block of the three store-backed handlers: the
\* response for the rows the query returned, under the fault of the request
\*   connect, search_path, query: the exception is raised before `out` is
\*     touched: except sets out["error"] and answers 500
\*   commit: raised when `return` leaves the with block, after items, count
\*     and ok were set: except sets out["error"] and answers 500
StoreResponse(fault, items, html) ==
    CASE fault = "none" ->
           IF html
           THEN [status |-> 200, body |-> "html", ok |-> TRUE,
                 count |-> Len(items), items |-> items, error |-> "",
                 exception |-> ""]
           ELSE Envelope(200, TRUE, items, "")
      [] fault = "commit" -> Envelope(500, TRUE, items, fault)
      [] OTHER -> Envelope(500, FALSE, <<>>, fault)

(***************************************************************************)
(* Coordinates: parse_coords and the spatial conditions of                 *)
(* dissociate_locations.  A parsed point is [ok, x, y, z], each component  *)
(* a value [num, den]; stored components are integers.                     *)
(***************************************************************************)
NoPoint == [ok |-> FALSE, x |-> ValueError, y |-> ValueError, z |-> ValueError]

\* def parse_coords(s): try: x, y, z = map(float, s.split("_")) ...
\*                      except Exception: return None
parse_coords(s) ==
    LET tok == Split(s, "_")
    IN IF Len(tok) = 3 /\ \A i \in 1..3 : float(tok[i]).ok
       THEN [ok |-> TRUE, x |-> float(tok[1]), y |-> float(tok[2]),
             z |-> float(tok[3])]
       ELSE NoPoint

\* x, y, z = map(int, coords.split("_")) of get_studies_by_coordinates
IntCoords(s) ==
    LET tok == Split(s, "_")
    IN IF Len(tok) = 3 /\ \A i \in 1..3 : int(tok[i]).ok
       THEN [ok |-> TRUE, x |-> int(tok[1]), y |-> int(tok[2]),
             z |-> int(tok[3])]
       ELSE NoPoint

Abs(n) == IF n < 0 THEN -n ELSE n

\* r == 0:  ST_X(c.geom)=:x AND ST_Y(c.geom)=:y AND ST_Z(c.geom)=:z
ExactMatch(c, p) ==
    /\ c.x * p.x.den = p.x.num
    /\ c.y * p.y.den = p.y.num
    /\ c.z * p.z.den = p.z.num

\* r > 0:  ST_3DDWithin(c.geom, probe, :r)
\*         OR (ST_DWithin(c.geom, probe, :r) AND ABS(ST_Z(c.geom)-:z)<=:r)
\* with every length scaled by the common denominator D
WithinMatch(c, p, r) ==
    LET D == p.x.den * p.y.den * p.z.den * r.den
        dx == (c.x * p.x.den - p.x.num) * (D \div p.x.den)
        dy == (c.y * p.y.den - p.y.num) * (D \div p.y.den)
        dz == (c.z * p.z.den - p.z.num) * (D \div p.z.den)
        R == r.num * (D \div r.den)
    IN \/ dx * dx + dy * dy + dz * dz <= R * R
       \/ dx * dx + dy * dy <= R * R /\ Abs(dz) <= R

\* if r == 0: exact conditions, else: tolerance conditions
SpatialMatch(c, p, r) ==
    IF r.num = 0 THEN ExactMatch(c, p) ELSE WithinMatch(c, p, r)

\* mutant of ExampleRows: the subquery is not correlated with the study
ExampleRows_AnyStudy(s, a, r) ==
    {c2 \in coordinates : SpatialMatch(c2, a, r)}

\* cond_c2: the rows the example-coordinate subquery selects from
ExampleRows(s, a, r) ==
    {c2 \in coordinates : c2.study_id = s /\ SpatialMatch(c2, a, r)}

\* NOT EXISTS (SELECT 1 FROM ns.coordinates cb
\*             WHERE cb.study_id = m.study_id AND cond_b)
NotExistsCb(s, b, r) ==
    ~\E cb \in coordinates : cb.study_id = s /\ SpatialMatch(cb, b, r)

\* FROM ns.metadata m WHERE EXISTS (ca ...) AND NOT EXISTS (cb ...)
DissocLocStudies(a, b, r) ==
    {s \in DOMAIN metadata :
        /\ \E ca \in coordinates : ca.study_id = s /\ SpatialMatch(ca, a, r)
        /\ NotExistsCb(s, b, r)}

\* SELECT m.study_id, ..., (SELECT json_build_object(...) FROM
\* ns.coordinates c2 WHERE ... LIMIT 1) AS any_example_coordinate_from_a
\* ex is the row LIMIT 1 kept, NULL when the subquery selects no row
DissocLocItem(s, ex) ==
    [study_id |-> s, year |-> metadata[s],
     any_example_coordinate_from_a |-> ex]

NullCoordinate == [study_id |-> NULL, x |-> NULL, y |-> NULL, z |-> NULL]

\* the rows LIMIT 1 may keep for study s
ExampleChoices(s, a, r) ==
    IF ExampleRows(s, a, r) = {} THEN {NullCoordinate}
    ELSE ExampleRows(s, a, r)

(***************************************************************************)
(* Requests and handlers.  A handler is one action: it takes the path      *)
(* parameters, the raw query arguments and the fault the store has during  *)
(* the request, and leaves the request, the handler's local values at its  *)
(* return and the response.  A handler starts when no request is being     *)
(* handled (Idle, in the next-state relations) and Respond ends it.        *)
(***************************************************************************)
Args(limit, offset, r, format) ==
    [limit |-> limit, offset |-> offset, r |-> r, format |-> format]

NoArgs == Args(None, None, None, None)

Html == <<"h", "t", "m", "l">>

Request(op, p1, p2, args, fault) ==
    [op |-> op, p1 |-> p1, p2 |-> p2, args |-> args, fault |-> fault]

NoCandidates == [us |-> None, sp |-> None]

ZeroRadius == [ok |-> TRUE, num |-> 0, den |-> 1]

Locals(limit, offset, ca, cb, a, b, r) ==
    [limit |-> limit, offset |-> offset, ca |-> ca, cb |-> cb,
     a |-> a, b |-> b, r |-> r]

NoLocals == Locals(NULL, NULL, NoCandidates, NoCandidates, NoPoint, NoPoint,
                   ZeroRadius)

Corpus == <<db_url, metadata, annotations, coordinates>>

NoRequest == Request("none", None, None, NoArgs, "none")

\* no request is being handled
Idle == request = NoRequest

\* the handler has returned: the response goes to the client and the
\* handler's values are dropped; _engine stays for the next request
Respond ==
    /\ ~Idle
    /\ request' = NoRequest
    /\ locals' = NoLocals
    /\ response' = NoResponse
    /\ UNCHANGED <<engine, Corpus>>

\* @app.get("/terms/<term>/studies")
\* (a local of the handler is bound as \E x \in {value}: one assignment)
get_studies_by_term(term, args, fault) ==
    \E limit \in {ParseLimit(args.limit)}, c \in {Normalize(term)} :
       /\ request' = Request("terms_studies", term, None, args, fault)
       /\ locals' = Locals(limit, 0, c, NoCandidates, NoPoint, NoPoint,
                           ZeroRadius)
       /\ IF GetEngineRaises
          THEN /\ response' = Unhandled("RuntimeError")
               /\ engine' = engine
          ELSE /\ engine' = GetEngine
               /\ \E q \in OrderedTerms(TermRows(c)) :
                     LET rows == Page(q, limit, 0)
                         items == [i \in 1..Len(rows) |-> TermItem(rows[i])]
                     IN response' = StoreResponse(fault, items, FALSE)
       /\ UNCHANGED Corpus

\* @app.get("/locations/<coords>/studies")
get_studies_by_coordinates(coords) ==
    \E p \in {IntCoords(coords)} :
       /\ request' = Request("locations_studies", coords, None, NoArgs, "none")
       /\ locals' = Locals(NULL, NULL, NoCandidates, NoCandidates, p, NoPoint,
                           ZeroRadius)
       /\ response' =
            IF p.ok
            THEN [status |-> 200, body |-> "array", ok |-> FALSE, count |-> 0,
                  items |-> <<p.x.num, p.y.num, p.z.num>>, error |-> "",
                  exception |-> ""]
            ELSE Unhandled("ValueError")
       /\ UNCHANGED <<engine, Corpus>>

\* @app.get("/dissociate/terms/<term_a>/<term_b>")
dissociate_terms(term_a, term_b, args, fault) ==
    \E limit \in {ParseLimit(args.limit)}, offset \in {ParseOffset(args.offset)},
       ca \in {Normalize(term_a)}, cb \in {Normalize(term_b)} :
       /\ request' = Request("dissociate_terms", term_a, term_b, args, fault)
       /\ locals' = Locals(limit, offset, ca, cb, NoPoint, NoPoint, ZeroRadius)
       /\ IF GetEngineRaises
          THEN /\ response' = Unhandled("RuntimeError")
               /\ engine' = engine
          ELSE /\ engine' = GetEngine
               /\ \E q \in OrderedTerms(DissocTermRows(ca, cb)) :
                     LET rows == Page(q, limit, offset)
                         items == [i \in 1..Len(rows) |->
                                      DissocTermItem(rows[i])]
                     IN response' =
                          StoreResponse(fault, items, args.format = Html)
       /\ UNCHANGED Corpus

\* @app.get("/dissociate/locations/<coords_a>/<coords_b>")
dissociate_locations(coords_a, coords_b, args, fault) ==
    \E r \in {ParseRadius(args.r)}, limit \in {ParseLimit(args.limit)},
       offset \in {ParseOffset(args.offset)},
       a \in {parse_coords(coords_a)}, b \in {parse_coords(coords_b)} :
       /\ request' = Request("dissociate_locations", coords_a, coords_b, args,
                             fault)
       /\ locals' = Locals(limit, offset, NoCandidates, NoCandidates, a, b, r)
       /\ IF ~a.ok \/ ~b.ok
          THEN /\ response' =
                    [status |-> 400, body |-> "envelope", ok |-> FALSE,
                     count |-> 0, items |-> <<>>, error |-> "x_y_z format",
                     exception |-> ""]
               /\ engine' = engine
          ELSE IF GetEngineRaises
          THEN /\ response' = Unhandled("RuntimeError")
               /\ engine' = engine
          ELSE /\ engine' = GetEngine
               /\ \E q \in OrderedStudies(DissocLocStudies(a, b, r)) :
                     \E page \in {Page(q, limit, offset)} :
                        \E ex \in [1..Len(page) ->
                                     coordinates \cup {NullCoordinate}] :
                           /\ \A i \in 1..Len(page) :
                                 ex[i] \in ExampleChoices(page[i], a, r)
                           /\ response' =
                                StoreResponse(
                                    fault,
                                    [i \in 1..Len(page) |->
                                        DissocLocItem(page[i], ex[i])],
                                    args.format = Html)
       /\ UNCHANGED Corpus

(***************************************************************************)
(* Corpora and initial states.                                             *)
(***************************************************************************)
DbUrls ==
    {NoUrl,
     [set |-> TRUE, scheme |-> "postgres", rest |-> "h"],
     [set |-> TRUE, scheme |-> "postgresql", rest |-> "h"]}

\* the subsets of S with at most n elements
UpTo(S, n) == UNION {{{f[i] : i \in 1..k} : f \in [1..k -> S]} : k \in 0..n}

AnnotationRows(terms) ==
    [study_id : Studies, term : terms, weight : Weights]

CoordRange == {0, 1}

CoordinateRows ==
    [study_id : Studies, x : CoordRange, y : CoordRange, z : CoordRange]

\* the state after create_app(): no engine, no request handled yet
InitApp ==
    /\ engine = NoEngine
    /\ request = NoRequest
    /\ locals = NoLocals
    /\ response = NoResponse

PostgresqlUrl == [set |-> TRUE, scheme |-> "postgresql", rest |-> "h"]

\* the characters of generated raw terms: a letter in both cases and the
\* two separators
RawAlphabet == {"a", "A", " ", "_"}

\* a path parameter of a route is never empty
RawTerms == NonEmptyStr(RawAlphabet, MaxRawLen)

(***************************************************************************)
(* SpecNorm: the term handlers over every generated raw term.              *)
(***************************************************************************)
InitNorm ==
    /\ InitApp
    /\ db_url = PostgresqlUrl
    /\ metadata = [s \in Studies |-> 2020]
    /\ annotations = {[study_id |-> 1, term |-> <<"x", "_", "_", "a">>,
                       weight |-> NULL]}
    /\ coordinates = {}

NextNorm ==
    \/ Idle /\ \E term \in RawTerms : get_studies_by_term(term, NoArgs, "none")
    \/ Idle /\ \E term \in RawTerms : dissociate_terms(term, <<"b">>, NoArgs, "none")
    \/ Idle /\ \E term \in RawTerms : dissociate_terms(<<"b">>, term, NoArgs, "none")
    \/ Respond

SpecNorm == InitNorm /\ [][NextNorm]_vars

IsTermOp == request.op \in {"terms_studies", "dissociate_terms"}

Idempotent(c) == Normalize(c.us) = c /\ Normalize(c.sp) = c

\* C9: normalizing either candidate the normalizer produced for a raw term
\* (the underscore form or the space form) yields the same pair of
\* candidates again, for the term of term retrieval and both terms of term
\* dissociation.
C9_NormalizeIdempotent ==
    IsTermOp =>
        /\ Idempotent(locals.ca)
        /\ request.op = "dissociate_terms" => Idempotent(locals.cb)

(***************************************************************************)
(* SpecMatch: the term handlers over a corpus of one annotation, for every *)
(* generated stored term and every generated query term.                   *)
(***************************************************************************)
StoredAlphabet == {"a", "A", "_"}

InitMatch ==
    /\ InitApp
    /\ db_url = PostgresqlUrl
    /\ metadata = [s \in Studies |-> 2020]
    /\ \E term \in Str(StoredAlphabet, MaxStoredLen) :
          annotations = {[study_id |-> 1, term |-> term, weight |-> NULL]}
    /\ coordinates = {}

QueryTerms == NonEmptyStr(RawAlphabet, MaxQueryLen)

NextMatch ==
    \/ Idle /\ \E term \in QueryTerms : get_studies_by_term(term, NoArgs, "none")
    \/ Idle /\ \E term \in QueryTerms :
          dissociate_terms(term, <<"A", " ", "A">>, NoArgs, "none")
    \/ Idle /\ \E term \in QueryTerms :
          dissociate_terms(<<"a">>, term, NoArgs, "none")
    \/ Respond

SpecMatch == InitMatch /\ [][NextMatch]_vars

\* index of the last occurrence of d in s at or before position i, 0 if none
RECURSIVE FindLast(_, _, _)
FindLast(s, d, i) ==
    IF i < 1 THEN 0
    ELSE IF i + 1 <= Len(s) /\ s[i] = d[1] /\ s[i + 1] = d[2] THEN i
    ELSE FindLast(s, d, i - 1)

\* the clean form as C5 states it: the lowercased text after the last '__',
\* the whole lowercased term when it holds no '__'
StatedClean(term) ==
    LET t == Lower(term)
        p == FindLast(t, Delim, Len(t) - 1)
    IN IF p = 0 THEN t ELSE SubSeq(t, p + 2, Len(t))

StartsWith(s, pre) == Len(pre) <= Len(s) /\ SubSeq(s, 1, Len(pre)) = pre

\* the match as C5 states it
StatedMatch(term, c) ==
    \/ StatedClean(term) \in {c.us, c.sp}
    \/ StartsWith(StatedClean(term), c.us)

Answered == response.body \in {"envelope", "html"} /\ response.status = 200

ItemStudies == {response.items[i].study_id : i \in 1..Len(response.items)}

\* C5: term retrieval returns a row for a stored term exactly when the term
\* matches as stated (clean form = text after the last '__', or the whole term
\* when bare; equal to a candidate or starting with the underscore form), and
\* term dissociation returns a study exactly when one of its terms matches A
\* so and none matches B so.
C5_StatedTermMatch ==
    /\ (request.op = "terms_studies" /\ Answered) =>
          \A a \in annotations :
             (\E i \in 1..Len(response.items) :
                 /\ response.items[i].raw_term = a.term
                 /\ response.items[i].study_id = a.study_id)
             <=> StatedMatch(a.term, locals.ca)
    /\ (request.op = "dissociate_terms" /\ Answered) =>
          \A s \in Studies :
             s \in ItemStudies <=>
                /\ \E a \in annotations :
                      a.study_id = s /\ StatedMatch(a.term, locals.ca)
                /\ ~\E b \in annotations :
                      b.study_id = s /\ StatedMatch(b.term, locals.cb)

\* C6: when the raw term normalizes to the empty string, no stored term with a
\* non-empty clean form is matched: term retrieval returns no row for one,
\* term dissociation returns no study on the strength of one (A empty) and
\* excludes no study on the strength of one (B empty).
C6_EmptyCandidateGuard ==
    /\ (request.op = "terms_studies" /\ Answered /\ locals.ca.us = <<>>) =>
          \A i \in 1..Len(response.items) :
             CleanLower(response.items[i].raw_term) = <<>>
    /\ (request.op = "dissociate_terms" /\ Answered /\ locals.ca.us = <<>>) =>
          \A s \in ItemStudies :
             \E a \in annotations :
                a.study_id = s /\ CleanLower(a.term) = <<>>
    /\ (request.op = "dissociate_terms" /\ Answered /\ locals.cb.us = <<>>) =>
          \A a \in annotations :
             (/\ TermMatch(a.term, locals.ca)
              /\ \A b \in annotations :
                    b.study_id = a.study_id => CleanLower(b.term) # <<>>)
             => a.study_id \in ItemStudies

(***************************************************************************)
(* SpecTerms: the term handlers over every corpus of at most               *)
(* MaxAnnotations annotations of MaxStudies studies.                       *)
(***************************************************************************)
\* stored terms: a prefixed label, a prefixed label it is a prefix of, and a
\* prefixed label unrelated to it
CorpusTerms ==
    {<<"x", "_", "_", "a">>, <<"x", "_", "_", "a", "b">>,
     <<"x", "_", "_", "b">>}

InitTerms ==
    /\ InitApp
    /\ db_url = PostgresqlUrl
    /\ metadata \in [Studies -> {2020, 2021}]
    /\ annotations \in UpTo(AnnotationRows(CorpusTerms), MaxAnnotations)
    /\ coordinates = {}

TermQueries == {<<"a">>, <<"B">>}

PageArgs ==
    {NoArgs, Args(<<"1">>, <<"1">>, None, None), Args(None, None, None, Html)}

NextTerms ==
    \/ Idle /\ \E term \in TermQueries, args \in PageArgs :
          get_studies_by_term(term, args, "none")
    \/ Idle /\ \E term_a, term_b \in TermQueries, args \in PageArgs :
          dissociate_terms(term_a, term_b, args, "none")
    \/ Respond

SpecTerms == InitTerms /\ [][NextTerms]_vars

HasMatch(s, c) ==
    \E a \in annotations : a.study_id = s /\ TermMatch(a.term, c)

\* C1: every study in a term dissociation result has an annotation matching A
\* and, over all of its annotations, none matching B.
C1_DissociationExclusive ==
    (request.op = "dissociate_terms" /\ response.body \in {"envelope", "html"})
    => \A s \in ItemStudies :
          HasMatch(s, locals.ca) /\ ~HasMatch(s, locals.cb)

\* C1 witness: a dissociation was answered over a corpus in which a study has
\* one annotation that matches A only and another that matches B, and the
\* study is not in the result.
C1_Witness ==
    /\ request.op = "dissociate_terms" /\ Answered
    /\ \E a, b \in annotations :
          /\ a.study_id = b.study_id /\ a # b
          /\ TermMatch(a.term, locals.ca) /\ ~TermMatch(a.term, locals.cb)
          /\ TermMatch(b.term, locals.cb)
          /\ a.study_id \notin ItemStudies

\* the ordering key of a result row of the term handlers
ItemWeight(it) ==
    IF request.op = "terms_studies" THEN it.weight ELSE it.weight_a

SameKey(i, j) ==
    /\ ItemWeight(response.items[i]) = ItemWeight(response.items[j])
    /\ response.items[i].year = response.items[j].year
    /\ response.items[i].study_id = response.items[j].study_id

ItemPrecedes(i, j) ==
    TermOrder([weight |-> ItemWeight(response.items[i]),
               study_id |-> response.items[i].study_id],
              [weight |-> ItemWeight(response.items[j]),
               study_id |-> response.items[j].study_id])

\* C7: the rows of a term result are ordered by weight descending with NULL
\* last, then year descending, then study_id ascending, and no two distinct
\* rows of one result compare equal on (weight, year, study_id).
C7_DeterministicTotalOrder ==
    (IsTermOp /\ Answered) =>
        /\ \A i \in 1..(Len(response.items) - 1) : ItemPrecedes(i, i + 1)
        /\ \A i, j \in 1..Len(response.items) :
              response.items[i] # response.items[j] => ~SameKey(i, j)

(***************************************************************************)
(* SpecLimit: the three handlers that read `limit`, over every generated   *)
(* raw limit string and the absent parameter.                              *)
(***************************************************************************)
LimitAlphabet == {"0", "1", "5", "-", " ", "x"}

RawLimits == Str(LimitAlphabet, MaxLimitLen) \cup {None}

Origin == <<"0", "_", "0", "_", "0">>

Corner == <<"1", "_", "1", "_", "1">>

InitLimit ==
    /\ InitApp
    /\ db_url = PostgresqlUrl
    /\ metadata = [s \in Studies |-> 2020]
    /\ annotations = {[study_id |-> s, term |-> <<"x", "_", "_", "a">>,
                       weight |-> NULL] : s \in Studies}
    /\ coordinates = {[study_id |-> s, x |-> 0, y |-> 0, z |-> 0] :
                         s \in Studies}

NextLimit ==
    \/ Idle /\ \E raw \in RawLimits :
          get_studies_by_term(<<"a">>, Args(raw, None, None, None), "none")
    \/ Idle /\ \E raw \in RawLimits :
          dissociate_terms(<<"a">>, <<"b">>, Args(raw, None, None, None),
                           "none")
    \/ Idle /\ \E raw \in RawLimits :
          dissociate_locations(Origin, Corner, Args(raw, None, None, None),
                               "none")
    \/ Respond

SpecLimit == InitLimit /\ [][NextLimit]_vars

TakesLimit ==
    request.op \in {"terms_studies", "dissociate_terms",
                    "dissociate_locations"}

\* the requested limit is a number
NumericLimit == request.args.limit # None /\ int(request.args.limit).ok

RequestedLimit == int(request.args.limit).num

\* C3 as stated: a requested limit above 500 yields the effective limit 500
\* and at most 500 rows; a requested limit of 0 or a non-numeric limit yields
\* the effective limit 50.
C3_LimitAsStated ==
    TakesLimit =>
        /\ (NumericLimit /\ RequestedLimit > LimitCap) =>
              locals.limit = LimitCap /\ Len(response.items) <= LimitCap
        /\ (~NumericLimit \/ RequestedLimit = 0) =>
              locals.limit = DefaultLimit

\* C3 amended: a requested limit above 500 yields the effective limit 500; a
\* numeric limit below 1 (0 included) yields 1; a numeric limit in 1..500
\* yields itself; an absent or non-numeric limit yields 50; and no response
\* holds more rows than the effective limit.
C3_LimitClamped ==
    TakesLimit =>
        /\ (NumericLimit /\ RequestedLimit > LimitCap) =>
              locals.limit = LimitCap
        /\ (NumericLimit /\ RequestedLimit < 1) => locals.limit = 1
        /\ (NumericLimit /\ RequestedLimit \in 1..LimitCap) =>
              locals.limit = RequestedLimit
        /\ ~NumericLimit => locals.limit = DefaultLimit
        /\ Len(response.items) <= locals.limit
        /\ Len(response.items) <= LimitCap

\* C3 witness: location dissociation answered a request for limit=10000 with
\* the effective limit 500.
C3_Witness ==
    /\ request.op = "dissociate_locations" /\ Answered
    /\ NumericLimit /\ RequestedLimit = 10000
    /\ locals.limit = LimitCap

(***************************************************************************)
(* SpecLoc: location dissociation over every corpus of at most             *)
(* MaxCoordinates coordinates of MaxStudies studies.                       *)
(***************************************************************************)
InitLoc ==
    /\ InitApp
    /\ db_url = PostgresqlUrl
    /\ metadata \in [Studies -> {2020, 2021}]
    /\ annotations = {}
    /\ coordinates \in UpTo(CoordinateRows, MaxCoordinates)

PointsA == {Origin, <<"0", ".", "5", "_", "0", "_", "0">>}

PointsB == {Corner, <<"0", "_", "0", "_", "1">>}

Half == <<"0", ".", "5">>

LocArgs ==
    {NoArgs, Args(None, None, <<"1">>, None), Args(None, None, Half, None),
     Args(<<"1">>, <<"1">>, <<"1">>, None), Args(None, None, <<"1">>, Html)}

NextLoc ==
    \/ Idle /\ \E coords_a \in PointsA, coords_b \in PointsB, args \in LocArgs :
                  dissociate_locations(coords_a, coords_b, args, "none")
    \/ Respond

SpecLoc == InitLoc /\ [][NextLoc]_vars

CoordinatesOf(s) == {c \in coordinates : c.study_id = s}

\* C2: every study location dissociation returns has a coordinate matching A
\* and, over all of its coordinates, none matching B, and the example
\* coordinate of its row is not null and is one of the study's own coordinates
\* that match A.
C2_LocationDissociation ==
    (request.op = "dissociate_locations"
        /\ response.body \in {"envelope", "html"})
    => \A i \in 1..Len(response.items) :
          LET s == response.items[i].study_id
              ex == response.items[i].any_example_coordinate_from_a
          IN /\ \E c \in CoordinatesOf(s) :
                   SpatialMatch(c, locals.a, locals.r)
             /\ \A c \in CoordinatesOf(s) :
                   ~SpatialMatch(c, locals.b, locals.r)
             /\ ex # NullCoordinate
             /\ ex \in CoordinatesOf(s)
             /\ SpatialMatch(ex, locals.a, locals.r)

\* C2 witness: a location dissociation with r > 0 returned a study that has
\* two coordinates, one matching A and one not, neither matching B.
C2_Witness ==
    /\ request.op = "dissociate_locations" /\ Answered
    /\ locals.r.num > 0
    /\ \E i \in 1..Len(response.items) :
          LET s == response.items[i].study_id
          IN \E c, d \in CoordinatesOf(s) :
                /\ SpatialMatch(c, locals.a, locals.r)
                /\ ~SpatialMatch(d, locals.a, locals.r)

(***************************************************************************)
(* SpecCoords: the two handlers that take coordinate strings, over every   *)
(* generated coordinate string.                                            *)
(***************************************************************************)
CoordAlphabet == {"1", "_", "-", ".", "a"}

CoordStrings == NonEmptyStr(CoordAlphabet, MaxCoordLen)

InitCoords ==
    /\ InitApp
    /\ db_url = PostgresqlUrl
    /\ metadata = [s \in Studies |-> 2020]
    /\ annotations = {}
    /\ coordinates = {[study_id |-> s, x |-> 1, y |-> 1, z |-> 1] :
                         s \in Studies}

NextCoords ==
    \/ Idle /\ \E coords \in CoordStrings : get_studies_by_coordinates(coords)
    \/ Idle /\ \E coords \in CoordStrings :
                  dissociate_locations(coords, Origin, NoArgs, "none")
    \/ Idle /\ \E coords \in CoordStrings :
                  dissociate_locations(Origin, coords, NoArgs, "none")
    \/ Respond

SpecCoords == InitCoords /\ [][NextCoords]_vars

\* three '_'-separated tokens, each a real number
WellFormed(coords) == parse_coords(coords).ok

ValidationFailure ==
    /\ response.body = "envelope"
    /\ response.status \in 400..499
    /\ ~response.ok
    /\ response.error # ""

\* C4: location retrieval and location dissociation answer a malformed
\* coordinate string (coords, coords_a or coords_b) with a validation failure:
\* ok = false and an error message.
C4_MalformedRejected ==
    /\ (request.op = "locations_studies" /\ ~WellFormed(request.p1))
          => ValidationFailure
    /\ (request.op = "dissociate_locations"
           /\ (~WellFormed(request.p1) \/ ~WellFormed(request.p2)))
          => ValidationFailure

\* C8: location retrieval answers a well-formed coordinate string with the
\* success envelope whose items are exactly the studies that have a coordinate
\* at that point, by year descending then study_id ascending.
C8_LocationRetrieval ==
    (request.op = "locations_studies" /\ WellFormed(request.p1)) =>
        /\ response.body = "envelope" /\ response.ok
        /\ response.count = Len(response.items)
        /\ \A i \in 1..Len(response.items) :
              response.items[i] \in
                 {DissocLocItem(s, ex) :
                     s \in Studies, ex \in coordinates \cup {NullCoordinate}}
        /\ ItemStudies =
              {s \in Studies :
                  \E c \in CoordinatesOf(s) :
                     ExactMatch(c, parse_coords(request.p1))}

(***************************************************************************)
(* SpecStore: the three store-backed handlers under every fault of the     *)
(* store and every setting of DB_URL.                                      *)
(***************************************************************************)
InitStore ==
    /\ InitApp
    /\ db_url \in DbUrls
    /\ metadata \in [Studies -> Years]
    /\ annotations = {[study_id |-> s, term |-> <<"x", "_", "_", "a">>,
                       weight |-> 1] : s \in Studies}
    /\ coordinates = {[study_id |-> s, x |-> 0, y |-> 0, z |-> 0] :
                         s \in Studies}

StoreArgs == {NoArgs, Args(None, None, None, Html)}

NextStore ==
    \/ Idle /\ \E fault \in Faults :
                  get_studies_by_term(<<"a">>, NoArgs, fault)
    \/ Idle /\ \E fault \in Faults, args \in StoreArgs :
                  dissociate_terms(<<"a">>, <<"b">>, args, fault)
    \/ Idle /\ \E fault \in Faults, args \in StoreArgs :
                  dissociate_locations(Origin, Corner, args, fault)
    \/ Respond

SpecStore == InitStore /\ [][NextStore]_vars

\* the store failed during the request: the handle could not be obtained
\* (DB_URL missing) or the store had a fault at one of its steps
StoreFailed ==
    /\ TakesLimit
    /\ request.fault # "none" \/ ~db_url.set

\* C10: a store failure at any step of a store-backed request is answered
\* with the envelope carrying ok = false and the failure's message, and with
\* no items (items empty, count 0).
C10_StoreFailureSurfaced ==
    StoreFailed =>
        /\ response.body = "envelope"
        /\ ~response.ok
        /\ response.error # ""
        /\ response.items = <<>>
        /\ response.count = 0

====
